---- MODULE Spec2Model ----
(***************************************************************************)
(* A model of src/broadcast.js: the Broadcast notice banner and the rolling *)
(* activity log.  The page (the four elements the script looks up), the     *)
(* browser's timer queue and the wall clock are part of the state; every    *)
(* public function, the click listener and the timer callback is an action. *)
(***************************************************************************)
EXTENDS Integers, Sequences, FiniteSets, TLC

VARIABLES
    config,         \* the configuration object (noticeDisplayTime, maxLogEntries)
    notices,        \* the static notice list, newest first
    dom,            \* ids of the elements document.getElementById finds
    now,            \* the clock, ms since the page was loaded
    logs,           \* store.logs
    currentNotice,  \* store.currentNotice
    noticeTimer,    \* store.noticeTimer
    timers,         \* the browser's pending timeouts: [id, due]
    nextTimer,      \* the id the next setTimeout returns
    bannerClass,    \* classList of #noticeBanner
    noticeText,     \* textContent of #noticeText
    logsContainer,  \* children of #logsContainer, in order
    listeners,      \* click listeners attached to #closeNotice
    initCalls,      \* how many times init() has run
    lastOp          \* the operation that ran last: its arguments, what it
                    \* reported, the notices it passed to displayNotice, the
                    \* timeouts it cancelled, the functions it called, what
                    \* it returned, whether it threw

vars == <<config, notices, dom, now, logs, currentNotice, noticeTimer, timers,
          nextTimer, bannerClass, noticeText, logsContainer, listeners,
          initCalls, lastOp>>

-----------------------------------------------------------------------------
(* Bounds of the model. *)

\* the largest log cap a configuration of the model has
MaxCap == 3
\* the longest prefix of the notice list a page of the model is built with
MaxNotices == 2
\* how many timeouts the browser hands out
MaxTimers == 2
\* how many times init() is called
MaxInit == 2
\* the clock advances in steps of TickStep ms, up to MaxTime ms
TickStep == 7500
MaxTime == 22500
\* how many numbered entries the append sequence of SpecLog holds
MaxAppend == 5

-----------------------------------------------------------------------------
(* Configuration and static data. *)

noticeDisplayTime == 15000
maxLogEntries == 50

\* const config = { noticeDisplayTime: 15000, maxLogEntries: 50 }
DefaultConfig ==
    [noticeDisplayTime |-> noticeDisplayTime, maxLogEntries |-> maxLogEntries]

\* The configurations of the model: the display time of the source, and a log
\* cap small enough for the log to overflow.
Configs == {[DefaultConfig EXCEPT !.maxLogEntries = c] : c \in 2..MaxCap}

\* const notices = [ ... ] (newest first)
SourceNotices == <<
    [id |-> 7, message |-> "Distrubute your X posts easily with our Quote Generator",
     importance |-> "update", timestamp |-> "2025-04-02T02:42:00Z"],
    [id |-> 6, message |-> "Verify a domain SSL status, without getting cached. (REMOVED)",
     importance |-> "warning", timestamp |-> "2025-03-10T02:42:00Z"],
    [id |-> 5, message |-> "Huge update for X profile, business & affiliate badges added",
     importance |-> "update", timestamp |-> "2025-02-27T10:00:00Z"],
    [id |-> 4, message |-> "WhatsApp link generator has been updated with new features!",
     importance |-> "update", timestamp |-> "2025-02-27T10:00:00Z"],
    [id |-> 3, message |-> "System maintenance scheduled for tomorrow at 2 AM UTC",
     importance |-> "warning", timestamp |-> "2025-02-26T15:30:00Z"],
    [id |-> 2, message |-> "New tool coming soon: Color Palette Generator",
     importance |-> "info", timestamp |-> "2025-02-25T12:45:00Z"],
    [id |-> 1, message |-> "Welcome to Web Tools Collection! Explore our tools.",
     importance |-> "info", timestamp |-> "2025-02-24T09:00:00Z"] >>

\* The notice lists a page is built with: the empty list and the newest
\* notices of the source's list.
NoticeLists == {<<>>, SubSeq(SourceNotices, 1, MaxNotices)}

\* The elements the script looks up with document.getElementById.
Elements == {"noticeBanner", "noticeText", "closeNotice", "logsContainer"}

\* null (store.currentNotice, store.noticeTimer); a timer id is never 0
NullNotice == [null |-> TRUE]
NullTimer == 0

\* A notice a caller of the public displayNotice builds without an importance.
PlainNotice ==
    [id |-> 0, message |-> "Scheduled downtime tonight",
     timestamp |-> "2025-04-03T00:00:00Z"]

\* if (notice.importance)
HasImportance(notice) ==
    "importance" \in DOMAIN notice /\ notice.importance # ""

\* An argument the caller leaves out.
Undefined == "undefined"

\* A message is the sequence of the pieces of its text (a template literal has
\* two: its fixed text and the value it interpolates).
Text(string) == <<string>>

\* The arguments callers pass to the public addLogEntry.
UserMessages == {Text("Cache cleared")}
UserTypes == {"alert"}

-----------------------------------------------------------------------------
(* The functions of the module, as transformers of the mutable state s.  A  *)
(* function that throws sets s.threw, and nothing runs after it.            *)

\* The mutable state at the start of a handler.
Cur ==
    [logs |-> logs, currentNotice |-> currentNotice, noticeTimer |-> noticeTimer,
     timers |-> timers, nextTimer |-> nextTimer, bannerClass |-> bannerClass,
     noticeText |-> noticeText, logsContainer |-> logsContainer,
     listeners |-> listeners,
     notices |-> notices,
     console |-> <<>>, displayed |-> <<>>, cleared |-> {}, calls |-> <<>>,
     returned |-> <<>>, threw |-> FALSE]

\* A function of the module is entered: the call is noted, unless an earlier
\* call threw and this one never happens.
Called(s, name) ==
    IF s.threw THEN s ELSE [s EXCEPT !.calls = Append(@, name)]

\* Date.parse of the ISO strings of the notice list, in seconds since the epoch.
DateParse(iso) ==
    CASE iso = "2025-04-02T02:42:00Z" -> 1743561720
      [] iso = "2025-03-10T02:42:00Z" -> 1741574520
      [] iso = "2025-02-27T10:00:00Z" -> 1740650400
      [] iso = "2025-02-26T15:30:00Z" -> 1740583800
      [] iso = "2025-02-25T12:45:00Z" -> 1740487500
      [] iso = "2025-02-24T09:00:00Z" -> 1740387600
      [] OTHER -> 1743638400

\* toLocaleDateString: the day; toLocaleTimeString: the second of the day
toLocaleDateString(seconds) == seconds \div 86400
toLocaleTimeString(seconds) == seconds % 86400

\* The element updateLogsUI builds for a notice.
NoticeElement(notice) ==
    LET timestamp == DateParse(notice.timestamp)
    IN  [className |-> <<"log-entry log-", notice.importance>>,
         timestamp |-> <<toLocaleDateString(timestamp), toLocaleTimeString(timestamp)>>,
         message |-> notice.message]

\* The element updateLogsUI builds for a log entry.
LogElement(log) ==
    [className |-> <<"log-entry log-", log.type>>,
     timestamp |-> <<toLocaleTimeString(log.timestamp \div 1000)>>,
     message |-> log.message]

Header(text) == [className |-> "log-section-header", textContent |-> text]

\* updateLogsUI appending the runtime entries before the notice history
RenderedLogs_LogsFirst(entries) ==
    <<Header("System Logs:")>>
    \o [i \in 1..Len(entries) |-> LogElement(entries[i])]
    \o <<Header("Notice History:")>>
    \o [i \in 1..Len(notices) |-> NoticeElement(notices[i])]

\* The children updateLogsUI gives the container for a log.
RenderedLogs(entries) ==
    <<Header("Notice History:")>>
    \o [i \in 1..Len(notices) |-> NoticeElement(notices[i])]
    \o <<Header("System Logs:")>>
    \o [i \in 1..Len(entries) |-> LogElement(entries[i])]

\* updateLogsUI without the return on a missing container: setting
\* innerHTML of null throws
updateLogsUI_NoGuard(s0) ==
    LET s == Called(s0, "updateLogsUI") IN
    IF s.threw THEN s
    ELSE IF "logsContainer" \notin dom THEN [s EXCEPT !.threw = TRUE]
    ELSE [s EXCEPT !.logsContainer = RenderedLogs(s.logs)]

\* function updateLogsUI()
updateLogsUI(s0) ==
    LET s == Called(s0, "updateLogsUI") IN
    IF s.threw THEN s
    ELSE IF "logsContainer" \notin dom THEN s
    ELSE [s EXCEPT !.logsContainer = RenderedLogs(s.logs)]

\* addLogEntry with the trim keeping the wrong end: logs.slice(-maxLogEntries)
addLogEntry_KeepsOldest(s0, message, type) ==
    LET s == Called(s0, "addLogEntry") IN
    IF s.threw THEN s
    ELSE LET logEntry == [timestamp |-> now, message |-> message,
                          type |-> IF type = Undefined THEN "info" ELSE type]
             unshifted == <<logEntry>> \o s.logs
             trimmed == IF Len(unshifted) > config.maxLogEntries
                        THEN SubSeq(unshifted,
                                    Len(unshifted) - config.maxLogEntries + 1,
                                    Len(unshifted))
                        ELSE unshifted
         IN  updateLogsUI([s EXCEPT !.logs = trimmed])

\* addLogEntry with the trim off by one: logs.slice(0, maxLogEntries + 1)
addLogEntry_OffByOne(s0, message, type) ==
    LET s == Called(s0, "addLogEntry") IN
    IF s.threw THEN s
    ELSE LET logEntry == [timestamp |-> now, message |-> message,
                          type |-> IF type = Undefined THEN "info" ELSE type]
             unshifted == <<logEntry>> \o s.logs
             trimmed == IF Len(unshifted) > config.maxLogEntries
                        THEN SubSeq(unshifted, 1, config.maxLogEntries + 1)
                        ELSE unshifted
         IN  updateLogsUI([s EXCEPT !.logs = trimmed])

\* function addLogEntry(message, type = 'info')
addLogEntry(s0, message, type) ==
    LET s == Called(s0, "addLogEntry") IN
    IF s.threw THEN s
    ELSE LET logEntry == [timestamp |-> now, message |-> message,
                          type |-> IF type = Undefined THEN "info" ELSE type]
             unshifted == <<logEntry>> \o s.logs
             trimmed == IF Len(unshifted) > config.maxLogEntries
                        THEN SubSeq(unshifted, 1, config.maxLogEntries)
                        ELSE unshifted
         IN  updateLogsUI([s EXCEPT !.logs = trimmed])

\* clearTimeout(id)
clearTimeout(pending, id) == {t \in pending : t.id # id}

\* hideNotice that drops the handle without clearTimeout
hideNotice_NoClear(s0) ==
    LET s == Called(s0, "hideNotice") IN
    IF s.threw THEN s
    ELSE LET s1 == IF "noticeBanner" \in dom
                   THEN [s EXCEPT !.bannerClass = @ \ {"active"}]
                   ELSE s
         IN  IF s1.noticeTimer # NullTimer
             THEN [s1 EXCEPT !.noticeTimer = NullTimer]
             ELSE s1

\* function hideNotice()
hideNotice(s0) ==
    LET s == Called(s0, "hideNotice") IN
    IF s.threw THEN s
    ELSE LET s1 == IF "noticeBanner" \in dom
                   THEN [s EXCEPT !.bannerClass = @ \ {"active"}]
                   ELSE s
         IN  IF s1.noticeTimer # NullTimer
             THEN [s1 EXCEPT !.timers = clearTimeout(@, s1.noticeTimer),
                             !.cleared = @ \cup (s1.timers
                                          \ clearTimeout(s1.timers, s1.noticeTimer)),
                             !.noticeTimer = NullTimer]
             ELSE s1

\* displayNotice without the clearTimeout of the timer it replaces
displayNotice_NoClear(s0, notice) ==
    LET s == Called(s0, "displayNotice") IN
    IF s.threw THEN s
    ELSE LET called == [s EXCEPT !.displayed = Append(@, notice)]
         IN  IF "noticeBanner" \notin dom \/ "noticeText" \notin dom
             THEN [called EXCEPT !.console =
                                   Append(@, "Notice banner elements not found")]
             ELSE LET classes == {"notice-banner", "active"}
                                 \cup (IF HasImportance(notice)
                                       THEN {notice.importance} ELSE {})
                      timer == [id |-> called.nextTimer,
                                due |-> now + config.noticeDisplayTime]
                  IN  [called EXCEPT !.noticeText = notice.message,
                                     !.bannerClass = classes,
                                     !.timers = @ \cup {timer},
                                     !.nextTimer = @ + 1,
                                     !.noticeTimer = timer.id,
                                     !.currentNotice = notice]

\* displayNotice with the guard written (!banner && !noticeText): with one
\* element missing it goes on and throws at the first use of the null one
displayNotice_AndGuard(s0, notice) ==
    LET s == Called(s0, "displayNotice") IN
    IF s.threw THEN s
    ELSE LET called == [s EXCEPT !.displayed = Append(@, notice)]
         IN  IF "noticeBanner" \notin dom /\ "noticeText" \notin dom
             THEN [called EXCEPT !.console =
                                   Append(@, "Notice banner elements not found")]
             ELSE IF "noticeText" \notin dom
             THEN [called EXCEPT !.threw = TRUE]
             ELSE IF "noticeBanner" \notin dom
             THEN [called EXCEPT !.noticeText = notice.message, !.threw = TRUE]
             ELSE LET classes == {"notice-banner", "active"}
                                 \cup (IF HasImportance(notice)
                                       THEN {notice.importance} ELSE {})
                      cleared == IF called.noticeTimer # NullTimer
                                 THEN clearTimeout(called.timers, called.noticeTimer)
                                 ELSE called.timers
                      timer == [id |-> called.nextTimer,
                                due |-> now + config.noticeDisplayTime]
                  IN  [called EXCEPT !.noticeText = notice.message,
                                     !.bannerClass = classes,
                                     !.cleared = @ \cup (called.timers \ cleared),
                                     !.timers = cleared \cup {timer},
                                     !.nextTimer = @ + 1,
                                     !.noticeTimer = timer.id,
                                     !.currentNotice = notice]

\* displayNotice adding to the banner's classes without resetting className
displayNotice_NoReset(s0, notice) ==
    LET s == Called(s0, "displayNotice") IN
    IF s.threw THEN s
    ELSE LET called == [s EXCEPT !.displayed = Append(@, notice)]
         IN  IF "noticeBanner" \notin dom \/ "noticeText" \notin dom
             THEN [called EXCEPT !.console =
                                   Append(@, "Notice banner elements not found")]
             ELSE LET classes == called.bannerClass
                                 \cup (IF HasImportance(notice)
                                       THEN {notice.importance} ELSE {})
                                 \cup {"active"}
                      cleared == IF called.noticeTimer # NullTimer
                                 THEN clearTimeout(called.timers, called.noticeTimer)
                                 ELSE called.timers
                      timer == [id |-> called.nextTimer,
                                due |-> now + config.noticeDisplayTime]
                  IN  [called EXCEPT !.noticeText = notice.message,
                                     !.bannerClass = classes,
                                     !.cleared = @ \cup (called.timers \ cleared),
                                     !.timers = cleared \cup {timer},
                                     !.nextTimer = @ + 1,
                                     !.noticeTimer = timer.id,
                                     !.currentNotice = notice]

\* function displayNotice(notice)
displayNotice(s0, notice) ==
    LET s == Called(s0, "displayNotice") IN
    IF s.threw THEN s
    ELSE LET called == [s EXCEPT !.displayed = Append(@, notice)]
         IN  IF "noticeBanner" \notin dom \/ "noticeText" \notin dom
             THEN [called EXCEPT !.console =
                                   Append(@, "Notice banner elements not found")]
             ELSE LET classes == {"notice-banner", "active"}
                                 \cup (IF HasImportance(notice)
                                       THEN {notice.importance} ELSE {})
                                 \cup {"active"}
                      cleared == IF called.noticeTimer # NullTimer
                                 THEN clearTimeout(called.timers, called.noticeTimer)
                                 ELSE called.timers
                      timer == [id |-> called.nextTimer,
                                due |-> now + config.noticeDisplayTime]
                  IN  [called EXCEPT !.noticeText = notice.message,
                                     !.bannerClass = classes,
                                     !.cleared = @ \cup (called.timers \ cleared),
                                     !.timers = cleared \cup {timer},
                                     !.nextTimer = @ + 1,
                                     !.noticeTimer = timer.id,
                                     !.currentNotice = notice]

\* function setupCloseButton()
setupCloseButton(s0) ==
    LET s == Called(s0, "setupCloseButton") IN
    IF s.threw THEN s
    ELSE IF "closeNotice" \in dom
         THEN [s EXCEPT !.listeners = @ + 1]
         ELSE [s EXCEPT !.console = Append(@, "Close button element not found")]

\* init() displaying the last notice of the list instead of the first
init_Oldest(s) ==
    LET s1 == addLogEntry(s, Text("Broadcast system initialized"), Undefined)
        s2 == IF Len(notices) > 0
              THEN LET latestNotice == notices[Len(notices)]
                   IN  addLogEntry(displayNotice(s1, latestNotice),
                                   <<"Displaying notice: ", latestNotice.message>>,
                                   latestNotice.importance)
              ELSE addLogEntry(s1, Text("No notices available"), Undefined)
        s3 == updateLogsUI(s2)
        s4 == setupCloseButton(s3)
    IN  addLogEntry(s4, Text("Broadcast system ready"), Undefined)

\* init() without the else branch: nothing is logged for an empty list
init_NoElse(s) ==
    LET s1 == addLogEntry(s, Text("Broadcast system initialized"), Undefined)
        s2 == IF Len(notices) > 0
              THEN LET latestNotice == notices[1]
                   IN  addLogEntry(displayNotice(s1, latestNotice),
                                   <<"Displaying notice: ", latestNotice.message>>,
                                   latestNotice.importance)
              ELSE s1
        s3 == updateLogsUI(s2)
        s4 == setupCloseButton(s3)
    IN  addLogEntry(s4, Text("Broadcast system ready"), Undefined)

\* init() taking the newest notice off the list: notices.shift()
init_Shift(s) ==
    LET s1 == addLogEntry(s, Text("Broadcast system initialized"), Undefined)
        s2 == IF Len(notices) > 0
              THEN LET latestNotice == notices[1]
                   IN  addLogEntry(displayNotice([s1 EXCEPT !.notices = Tail(@)],
                                                 latestNotice),
                                   <<"Displaying notice: ", latestNotice.message>>,
                                   latestNotice.importance)
              ELSE addLogEntry(s1, Text("No notices available"), Undefined)
        s3 == updateLogsUI(s2)
        s4 == setupCloseButton(s3)
    IN  addLogEntry(s4, Text("Broadcast system ready"), Undefined)

\* init() logging readiness before it sets up the close button
init_ReadyFirst(s) ==
    LET s1 == addLogEntry(s, Text("Broadcast system initialized"), Undefined)
        s2 == IF Len(notices) > 0
              THEN LET latestNotice == notices[1]
                   IN  addLogEntry(displayNotice(s1, latestNotice),
                                   <<"Displaying notice: ", latestNotice.message>>,
                                   latestNotice.importance)
              ELSE addLogEntry(s1, Text("No notices available"), Undefined)
        s3 == updateLogsUI(s2)
        s4 == addLogEntry(s3, Text("Broadcast system ready"), Undefined)
    IN  setupCloseButton(s4)

\* function init()
init(s) ==
    LET s1 == addLogEntry(s, Text("Broadcast system initialized"), Undefined)
        s2 == IF Len(notices) > 0
              THEN LET latestNotice == notices[1]
                   IN  addLogEntry(displayNotice(s1, latestNotice),
                                   <<"Displaying notice: ", latestNotice.message>>,
                                   latestNotice.importance)
              ELSE addLogEntry(s1, Text("No notices available"), Undefined)
        s3 == updateLogsUI(s2)
        s4 == setupCloseButton(s3)
    IN  addLogEntry(s4, Text("Broadcast system ready"), Undefined)

\* The listener setupCloseButton attaches.
closeListener(s) ==
    addLogEntry(hideNotice(s), Text("Notice manually closed by user"), Undefined)

\* A click on #closeNotice runs every attached listener, in order.
RECURSIVE dispatchClick(_, _)
dispatchClick(s, n) ==
    IF n = 0 THEN s ELSE dispatchClick(closeListener(s), n - 1)

\* The callback removing a class the banner does not have
timerCallback_WrongClass(s) ==
    IF s.threw THEN s ELSE [s EXCEPT !.bannerClass = @ \ {"activ"}]

\* The callback displayNotice hands to setTimeout.
timerCallback(s) ==
    IF s.threw THEN s ELSE [s EXCEPT !.bannerClass = @ \ {"active"}]

\* function getAllNotices()
getAllNotices(s) == [s EXCEPT !.returned = s.notices]

-----------------------------------------------------------------------------
(* The state machine. *)

\* What the handler that ran left behind.
Commit(s, op, args) ==
    /\ lastOp' = [op |-> op, args |-> args, console |-> s.console,
                  displayed |-> s.displayed, cleared |-> s.cleared,
                  calls |-> s.calls, returned |-> s.returned,
                  threw |-> s.threw]
    /\ logs' = s.logs
    /\ currentNotice' = s.currentNotice
    /\ noticeTimer' = s.noticeTimer
    /\ timers' = s.timers
    /\ nextTimer' = s.nextTimer
    /\ bannerClass' = s.bannerClass
    /\ noticeText' = s.noticeText
    /\ logsContainer' = s.logsContainer
    /\ listeners' = s.listeners
    /\ notices' = s.notices
    /\ UNCHANGED <<config, dom>>

\* The page as loaded, before any call: the store as constructed, the banner
\* (when the page has one) with its base class only, an empty log container.
Init ==
    /\ config \in Configs
    /\ notices \in NoticeLists
    /\ dom \in SUBSET Elements
    /\ now = 0
    /\ logs = <<>>
    /\ currentNotice = NullNotice
    /\ noticeTimer = NullTimer
    /\ timers = {}
    /\ nextTimer = 1
    /\ bannerClass = IF "noticeBanner" \in dom THEN {"notice-banner"} ELSE {}
    /\ noticeText = ""
    /\ logsContainer = <<>>
    /\ listeners = 0
    /\ initCalls = 0
    /\ lastOp = [op |-> "load", args |-> <<>>, console |-> <<>>,
                 displayed |-> <<>>, cleared |-> {}, calls |-> <<>>,
                 returned |-> <<>>, threw |-> FALSE]

\* Broadcast.init()
Initialize ==
    /\ initCalls < MaxInit
    /\ Len(notices) > 0 /\ {"noticeBanner", "noticeText"} \subseteq dom
          => nextTimer <= MaxTimers
    /\ initCalls' = initCalls + 1
    /\ Commit(init(Cur), "init", <<>>)
    /\ UNCHANGED now

\* The notices a caller passes to the public displayNotice.
DisplayInputs == {notices[i] : i \in 1..Len(notices)} \cup {PlainNotice}

\* Broadcast.displayNotice(notice)
Display(notice) ==
    /\ nextTimer <= MaxTimers
    /\ Commit(displayNotice(Cur, notice), "display", <<notice>>)
    /\ UNCHANGED <<now, initCalls>>

\* Broadcast.hideNotice()
Hide ==
    /\ Commit(hideNotice(Cur), "hide", <<>>)
    /\ UNCHANGED <<now, initCalls>>

\* Broadcast.addLogEntry(message, type)
AppendLog(message, type) ==
    /\ Commit(addLogEntry(Cur, message, type), "append", <<message, type>>)
    /\ UNCHANGED <<now, initCalls>>

\* The user clicks the dismiss control.
Click ==
    /\ "closeNotice" \in dom
    /\ listeners > 0
    /\ Commit(dispatchClick(Cur, listeners), "click", <<>>)
    /\ UNCHANGED <<now, initCalls>>

\* A timeout that is due fires: the browser drops it and runs its callback.
TimerFire(t) ==
    /\ t \in timers
    /\ now >= t.due
    /\ Commit(timerCallback([Cur EXCEPT !.timers = @ \ {t}]), "timer", <<t>>)
    /\ UNCHANGED <<now, initCalls>>

\* Broadcast.getAllNotices()
GetAllNotices ==
    /\ Commit(getAllNotices(Cur), "getAllNotices", <<>>)
    /\ UNCHANGED <<now, initCalls>>

\* Time passes.
Tick ==
    /\ now + TickStep <= MaxTime
    /\ now' = now + TickStep
    /\ UNCHANGED <<config, notices, dom, logs, currentNotice, noticeTimer,
                   timers, nextTimer, bannerClass, noticeText, logsContainer,
                   listeners, initCalls, lastOp>>

Next ==
    \/ Initialize
    \/ \E notice \in DisplayInputs : Display(notice)
    \/ Hide
    \/ \E message \in UserMessages, type \in UserTypes : AppendLog(message, type)
    \/ Click
    \/ \E t \in timers : TimerFire(t)
    \/ GetAllNotices
    \/ Tick

Spec == Init /\ [][Next]_vars

-----------------------------------------------------------------------------
(* The log alone: a page that calls addLogEntry with the messages           *)
(* <<"entry", 1>>, <<"entry", 2>>, ... on a log that starts empty.          *)

\* The number of the call that ran last (0 before the first).
Appended == IF lastOp.op = "append" THEN lastOp.args[1][2] ELSE 0

\* The next call of the sequence.
AppendNth(type) ==
    /\ Appended < MaxAppend
    /\ AppendLog(<<"entry", Appended + 1>>, type)

NextLog == \E type \in {Undefined} \cup UserTypes : AppendNth(type)

SpecLog == Init /\ [][NextLog]_vars

-----------------------------------------------------------------------------
(* The log *)

\* The banner shows a notice.
Shown == "active" \in bannerClass

\* C1: from an empty log, after N calls of addLogEntry with cap C the log
\* holds min(N, C) entries, they are the most recently appended messages with
\* the last one at index 0 (the first of the sequence), and when N > C none of
\* the N - C oldest messages is left.
C1_NewestKeptOldestEvicted ==
    lastOp.op = "append" =>
        LET N == Appended
            C == config.maxLogEntries
            kept == IF N > C THEN C ELSE N
        IN  /\ Len(logs) = kept
            /\ \A i \in 1..kept : logs[i].message = <<"entry", N - i + 1>>
            /\ \A k \in 1..(N - C) :
                   \A i \in 1..Len(logs) : logs[i].message # <<"entry", k>>

\* More than one entry has been evicted.
C1_Witness ==
    /\ lastOp.op = "append"
    /\ Appended > config.maxLogEntries + 1
    /\ Len(logs) = config.maxLogEntries
    /\ logs[1].message = <<"entry", Appended>>

\* C2: the log never holds more entries than config.maxLogEntries.
C2_LogCapped == Len(logs) <= config.maxLogEntries

\* init() ran once, nothing else appended, and the log is full without the
\* first entry init() appended: it was evicted.
C2_Witness ==
    /\ initCalls = 1
    /\ lastOp.op = "init"
    /\ Len(logs) = config.maxLogEntries
    /\ \A i \in 1..Len(logs) :
           logs[i].message # Text("Broadcast system initialized")

-----------------------------------------------------------------------------
(* The auto-hide timer *)

\* C3: at most one timeout is pending, and it is the one store.noticeTimer
\* names: a timeout an earlier displayNotice scheduled, or one hideNotice
\* cancelled, is not pending and cannot fire.
C3_OnePendingTimer ==
    /\ Cardinality(timers) <= 1
    /\ \A t \in timers : t.id = noticeTimer

\* A displayNotice has just replaced the timeout of an earlier one.
C3_Witness ==
    /\ lastOp.op = "display"
    /\ lastOp.cleared # {}
    /\ Cardinality(timers) = 1
    /\ \A t \in timers : t.id = noticeTimer /\ t \notin lastOp.cleared

\* A displayNotice that found its elements.
DisplayTakesEffect ==
    /\ \E notice \in DisplayInputs : Display(notice)
    /\ {"noticeBanner", "noticeText"} \subseteq dom

\* C4: a displayNotice that takes effect leaves its own timeout as the only
\* pending one, due noticeDisplayTime after the call, and a shown banner is
\* hidden only by hideNotice, by a click, or by that timeout firing when it is
\* due: after two calls in a row the banner outlives the first call's
\* duration and is hidden by the second call's timeout.
C4_HiddenBySecondTimer ==
    [][ /\ DisplayTakesEffect =>
              /\ Shown'
              /\ timers' = {[id |-> noticeTimer',
                             due |-> now + config.noticeDisplayTime]}
        /\ (Shown /\ ~Shown') =>
              \/ Hide
              \/ Click
              \/ \E t \in timers : /\ TimerFire(t)
                                    /\ t.id = noticeTimer
                                    /\ now >= t.due ]_vars

\* Two displayNotice calls in a row, the first call's duration has elapsed,
\* the second call's has not, and the banner is shown.
C4_Witness ==
    /\ lastOp.op = "display"
    /\ \E first \in lastOp.cleared : now >= first.due
    /\ \E second \in timers : second.id = noticeTimer /\ now < second.due
    /\ Shown

-----------------------------------------------------------------------------
(* hideNotice *)

\* C5: hideNotice called while no notice is shown throws nothing and changes
\* nothing: not the log, the current notice, the timer handle, the pending
\* timeouts or the banner.
C5_HideWhenHiddenChangesNothing ==
    [][ (Hide /\ ~Shown) =>
            /\ ~lastOp'.threw
            /\ UNCHANGED <<logs, currentNotice, noticeTimer, timers,
                           bannerClass, noticeText, logsContainer, listeners>>
      ]_vars

-----------------------------------------------------------------------------
(* init() *)

\* The log holds an entry with this message.
Logged(message) == \E i \in 1..Len(logs) : logs[i].message = message

\* C7: with a non-empty notice list and every element on the page, init()
\* displays the notice at index 0 and no other: the banner is shown with that
\* notice's message and importance, store.currentNotice is that notice, and
\* it is the only notice passed to displayNotice.
C7_InitDisplaysFirstNotice ==
    (lastOp.op = "init" /\ Len(notices) > 0 /\ dom = Elements) =>
        /\ Shown
        /\ noticeText = notices[1].message
        /\ bannerClass = {"notice-banner", "active", notices[1].importance}
        /\ currentNotice = notices[1]
        /\ lastOp.displayed = <<notices[1]>>

\* init() has displayed the first of several notices.
C7_Witness ==
    /\ lastOp.op = "init"
    /\ Len(notices) > 1
    /\ dom = Elements
    /\ currentNotice = notices[1]
    /\ Logged(<<"Displaying notice: ", notices[1].message>>)

-----------------------------------------------------------------------------
(* Missing page elements *)

\* C9: whatever elements are missing, no operation throws, and init() runs to
\* its end: "Broadcast system ready" is the newest entry, and every step whose
\* elements are there is done (the log is rendered, the listener attached,
\* the notice displayed).
C9_MissingElementsNeverHalt ==
    /\ ~lastOp.threw
    /\ lastOp.op = "init" =>
          /\ logs # <<>>
          /\ logs[1].message = Text("Broadcast system ready")
          /\ "logsContainer" \in dom => logsContainer = RenderedLogs(logs)
          /\ "closeNotice" \in dom => listeners = initCalls
          /\ ({"noticeBanner", "noticeText"} \subseteq dom /\ Len(notices) > 0)
                => (Shown /\ currentNotice = notices[1])

\* init() has run without the log container and the dismiss control, and has
\* displayed the notice.
C9_Witness ==
    /\ lastOp.op = "init"
    /\ dom = {"noticeBanner", "noticeText"}
    /\ lastOp.console = <<"Close button element not found">>
    /\ Shown
    /\ logs[1].message = Text("Broadcast system ready")

\* C10: displayNotice called without the banner or without the text region
\* reports it on the console and changes nothing: the current notice, the
\* timer, the pending timeouts, the log and the banner are as before.
C10_DisplayWithoutElements ==
    [][ ((\E notice \in DisplayInputs : Display(notice))
         /\ ~({"noticeBanner", "noticeText"} \subseteq dom)) =>
            /\ lastOp'.console = <<"Notice banner elements not found">>
            /\ ~lastOp'.threw
            /\ UNCHANGED <<logs, currentNotice, noticeTimer, timers, nextTimer,
                           bannerClass, noticeText, logsContainer, listeners>>
      ]_vars

\* displayNotice has reported a missing text region on a page with a banner.
C10_Witness ==
    /\ lastOp.op = "display"
    /\ "noticeBanner" \in dom
    /\ "noticeText" \notin dom
    /\ lastOp.console = <<"Notice banner elements not found">>
    /\ currentNotice = NullNotice

-----------------------------------------------------------------------------
(* store.currentNotice *)

\* C11: store.currentNotice is the notice the banner shows (its message is the
\* banner's text) while a notice is shown, and null whenever none is shown.
C11_CurrentNoticeIsDisplayed ==
    /\ Shown => (currentNotice # NullNotice
                 /\ currentNotice.message = noticeText)
    /\ ~Shown => currentNotice = NullNotice

-----------------------------------------------------------------------------
(* The rendered log and the notice list *)

\* C12: once the log container has been rendered it holds a header, every
\* static notice in list order, a second header, and every stored log entry in
\* the order of store.logs (newest first): no log entry comes before a
\* notice, and the rendered entries are the stored ones after every
\* addLogEntry.
C12_NoticesThenLogs ==
    ("logsContainer" \in dom /\ logsContainer # <<>>) =>
        LET n == Len(notices)
        IN  /\ Len(logsContainer) = n + Len(logs) + 2
            /\ logsContainer[1] = Header("Notice History:")
            /\ \A i \in 1..n :
                   /\ logsContainer[1 + i].message = notices[i].message
                   /\ logsContainer[1 + i].className
                         = <<"log-entry log-", notices[i].importance>>
            /\ logsContainer[n + 2] = Header("System Logs:")
            /\ \A j \in 1..Len(logs) :
                   /\ logsContainer[n + 2 + j].message = logs[j].message
                   /\ logsContainer[n + 2 + j].className
                         = <<"log-entry log-", logs[j].type>>

\* addLogEntry has just re-rendered a full log under the notice history.
C12_Witness ==
    /\ lastOp.op = "append"
    /\ "logsContainer" \in dom
    /\ Len(notices) > 1
    /\ Len(logs) = config.maxLogEntries
    /\ logsContainer[Len(notices) + 3].message = lastOp.args[1]
    /\ logsContainer[Len(notices) + 4].message = Text("Broadcast system ready")

\* The notice list returned is ordered newest first.
NewestFirst(list) ==
    \A i \in 1..Len(list) :
        DateParse(list[1].timestamp) >= DateParse(list[i].timestamp)

\* C13: no operation changes the notice list, and getAllNotices returns it,
\* its first element the most recent notice.
C13_NoticesNeverChange ==
    [][ /\ notices' = notices
        /\ GetAllNotices => (lastOp'.returned = notices
                             /\ NewestFirst(lastOp'.returned)) ]_vars

\* getAllNotices has returned the list after init() and a click used it.
C13_Witness ==
    /\ lastOp.op = "getAllNotices"
    /\ lastOp.returned = notices
    /\ Len(notices) > 1
    /\ initCalls > 0
    /\ Logged(Text("Notice manually closed by user"))

-----------------------------------------------------------------------------
(* Liveness: the event loop lets time pass and runs a timeout that is due. *)

\* Time passes beyond MaxTime while a timeout is waiting to become due.
TickOver ==
    /\ now + TickStep > MaxTime
    /\ \E t \in timers : now < t.due
    /\ now' = now + TickStep
    /\ UNCHANGED <<config, notices, dom, logs, currentNotice, noticeTimer,
                   timers, nextTimer, bannerClass, noticeText, logsContainer,
                   listeners, initCalls, lastOp>>

NextLive == Next \/ TickOver

\* The pages that have a banner to show, with the shortest log.
InitLive ==
    /\ Init
    /\ {"noticeBanner", "noticeText"} \subseteq dom
    /\ config.maxLogEntries = 2

SpecLive ==
    /\ InitLive
    /\ [][NextLive]_vars
    /\ WF_vars(Tick)
    /\ WF_vars(TickOver)
    /\ WF_vars(\E t \in timers : TimerFire(t))

\* C14: a banner that displayNotice has shown is eventually not shown: its
\* timeout fires once it is due, unless hideNotice or a click hides the
\* banner before (the calls of displayNotice are finitely many).
C14_EventuallyHidden == Shown ~> ~Shown

\* The timeout of the last displayNotice has fired and hidden the banner.
C14_Witness ==
    /\ lastOp.op = "timer"
    /\ lastOp.args[1].id = noticeTimer
    /\ currentNotice # NullNotice
    /\ ~Shown

-----------------------------------------------------------------------------
(* The timer-driven hide *)

\* C15: the timeout firing leaves the banner, store.noticeTimer and
\* store.currentNotice as hideNotice would from the same state: the banner
\* not shown and the timer handle null.
C15_TimerFireIsHide ==
    [][ \A t \in timers : TimerFire(t) =>
            /\ bannerClass' = hideNotice(Cur).bannerClass
            /\ noticeTimer' = hideNotice(Cur).noticeTimer
            /\ currentNotice' = hideNotice(Cur).currentNotice
            /\ ~Shown'
            /\ noticeTimer' = NullTimer ]_vars

-----------------------------------------------------------------------------
(* The order of init() *)

\* Nothing has been logged, displayed or attached yet.
Fresh ==
    /\ logs = <<>>
    /\ currentNotice = NullNotice
    /\ noticeTimer = NullTimer
    /\ listeners = 0

\* C16: on a fresh state with a non-empty list, every element present and
\* room for three entries, init() leaves the log, newest first, as
\* "Broadcast system ready" (info), "Displaying notice: <message>" (the
\* notice's importance), "Broadcast system initialized" (info), and it calls
\* setupCloseButton, which attaches the listener, before the addLogEntry of
\* the readiness entry.
C16_InitOrder ==
    [][ (Initialize /\ Fresh /\ Len(notices) > 0 /\ dom = Elements
         /\ config.maxLogEntries >= 3) =>
            /\ [i \in 1..Len(logs') |-> <<logs'[i].message, logs'[i].type>>]
                 = << <<Text("Broadcast system ready"), "info">>,
                      << <<"Displaying notice: ", notices[1].message>>,
                         notices[1].importance >>,
                      <<Text("Broadcast system initialized"), "info">> >>
            /\ lastOp'.calls
                 = <<"addLogEntry", "updateLogsUI", "displayNotice",
                     "addLogEntry", "updateLogsUI", "updateLogsUI",
                     "setupCloseButton", "addLogEntry", "updateLogsUI">>
            /\ listeners' = 1 ]_vars

\* init() has run first on a complete page.
C16_Witness ==
    /\ lastOp.op = "init"
    /\ initCalls = 1
    /\ nextTimer = 2
    /\ dom = Elements
    /\ Len(notices) > 0
    /\ Len(logs) = 3
    /\ logs[3].message = Text("Broadcast system initialized")
    /\ logs[1].message = Text("Broadcast system ready")
    /\ listeners = 1

-----------------------------------------------------------------------------
(* The banner's classes *)

\* C17: after a displayNotice that takes effect the banner's classes are the
\* base class, 'active' and the importance of the notice just displayed, or
\* the first two alone for a notice without importance: the importance of an
\* earlier notice is gone.
C17_ClassesOfLastNotice ==
    (lastOp.op = "display" /\ {"noticeBanner", "noticeText"} \subseteq dom) =>
        bannerClass = {"notice-banner", "active"}
                      \cup (IF HasImportance(lastOp.args[1])
                            THEN {lastOp.args[1].importance} ELSE {})

\* A notice without importance has replaced the notice init() displayed.
C17_Witness ==
    /\ lastOp.op = "display"
    /\ lastOp.args[1] = PlainNotice
    /\ lastOp.cleared # {}
    /\ initCalls = 1
    /\ Len(notices) > 0
    /\ currentNotice = PlainNotice
    /\ bannerClass = {"notice-banner", "active"}

-----------------------------------------------------------------------------
(* What init() logs and what a click runs *)

\* C18: when init() has logged "Displaying notice: <message>", the notice was
\* displayed: the banner is shown with that message and store.currentNotice
\* is that notice.
C18_LoggedMeansDisplayed ==
    (/\ lastOp.op = "init"
     /\ Len(notices) > 0
     /\ Logged(<<"Displaying notice: ", notices[1].message>>)) =>
        /\ Shown
        /\ noticeText = notices[1].message
        /\ currentNotice = notices[1]

\* How many times a handler called a function.
Calls(trace, name) == Cardinality({i \in 1..Len(trace) : trace[i] = name})

\* C19: a click on the dismiss control runs hideNotice once and appends one
\* "Notice manually closed by user" entry, however often init() has run.
C19_ClickHidesOnce ==
    [][ Click =>
            /\ Calls(lastOp'.calls, "hideNotice") = 1
            /\ Calls(lastOp'.calls, "addLogEntry") = 1 ]_vars

====
